---- MODULE Spec2Model ----
(***************************************************************************)
(* Cryptolab: the Caesar, Affine, Playfair and Hill ciphers and the Hill   *)
(* known-plaintext key recovery of backend/app, with the arithmetic of     *)
(* backend/app/utils/math_utils.py.                                        *)
(*                                                                         *)
(* A Python str is a sequence of characters.  A character is a one-letter  *)
(* string for ASCII ("A", "a", " ", "1") and the token "U+XXXX" for a      *)
(* character outside ASCII: "U+00E9" is e-acute, "U+00C9" is its capital,  *)
(* "U+00DF" is the German sharp s (whose upper() is the two letters "SS"). *)
(* A Python list is a sequence too, so M[1][1] is the code's M[0][0].      *)
(* A Python dict is a record; `"error" \in DOMAIN r` is `"error" in r`.    *)
(* None is the empty sequence where a list is expected (NoneList) and -1   *)
(* where mod_inverse's value in 0..m-1 is expected (NoneInt).              *)
(* A formatted message is the sequence of its literal parts and values,    *)
(* with the sign for "not equal" written "!=".  The display-only strings   *)
(* of the trace records ("calculation", "formula", "description") repeat   *)
(* fields the records already hold and are left out.                       *)
(***************************************************************************)
EXTENDS Integers, Sequences, FiniteSets, TLC

VARIABLES
  pc,        \* which calls have been made: "start", "encrypted", ...
  text,      \* the text argument (plaintext, ciphertext or known plaintext)
  key,       \* the key argument: shift, <<a, b>>, keyword or 2x2 matrix
  enc,       \* what encrypt returned
  dec,       \* what decrypt returned
  crk,       \* what HillCipher.crack returned
  matrix,    \* what PlayfairCipher.generate_matrix returned
  digraphs,  \* what PlayfairCipher.prepare_text returned
  known,     \* the known_ciphertext argument of HillCipher.crack
  args,      \* the integer arguments of a math_utils call
  ret        \* what a math_utils function or validate_matrix returned

vars == <<pc, text, key, enc, dec, crk, matrix, digraphs, known, args, ret>>

\* The value of a result variable before the call that sets it.
NotCalled == [operation |-> "none"]

NoneList == <<>>

----------------------------------------------------------------------------
(* Python's str and its builtins, on the characters the inputs are drawn from *)

ASCII_UPPER ==
  <<"A","B","C","D","E","F","G","H","I","J","K","L","M",
    "N","O","P","Q","R","S","T","U","V","W","X","Y","Z">>

ASCII_LOWER ==
  <<"a","b","c","d","e","f","g","h","i","j","k","l","m",
    "n","o","p","q","r","s","t","u","v","w","x","y","z">>

UpperSet == {ASCII_UPPER[i] : i \in 1..26}

LowerSet == {ASCII_LOWER[i] : i \in 1..26}

\* The letters of Unicode that are not ASCII, among the characters modelled.
NonAsciiLetters == {"U+00C9", "U+00E9", "U+00DF"}

UpperIndex == [c \in UpperSet |-> CHOOSE i \in 1..26 : ASCII_UPPER[i] = c]

LowerIndex == [c \in LowerSet |-> CHOOSE i \in 1..26 : ASCII_LOWER[i] = c]

\* str.isalpha() of one character: true of every Unicode letter.
isalpha(c) == c \in UpperSet \cup LowerSet \cup NonAsciiLetters

\* ord(c)
ord(c) ==
  CASE c \in UpperSet -> 64 + UpperIndex[c]
    [] c \in LowerSet -> 96 + LowerIndex[c]
    [] c = " " -> 32
    [] c = "1" -> 49
    [] c = "U+00C9" -> 201
    [] c = "U+00DF" -> 223
    [] c = "U+00E9" -> 233

\* chr(n); the ciphers only call it on ord('A') + (a position in 0..25).
chr(n) ==
  CASE n \in 65..90 -> ASCII_UPPER[n - 64]
    [] n \in 97..122 -> ASCII_LOWER[n - 96]
    [] n = 32 -> " "
    [] n = 49 -> "1"
    [] n = 201 -> "U+00C9"
    [] n = 223 -> "U+00DF"
    [] n = 233 -> "U+00E9"

\* str.upper() of one character (a string: sharp s becomes "SS").
char_upper(c) ==
  CASE c \in LowerSet -> <<ASCII_UPPER[LowerIndex[c]]>>
    [] c = "U+00E9" -> <<"U+00C9">>
    [] c = "U+00DF" -> <<"S", "S">>
    [] OTHER -> <<c>>

RECURSIVE str_upper(_)
\* str.upper()
str_upper(s) ==
  IF s = <<>> THEN <<>> ELSE char_upper(Head(s)) \o str_upper(Tail(s))

\* ''.join(c for c in s if c.isalpha())
only_alpha(s) == SelectSeq(s, isalpha)

\* s.replace(old, new) for single characters
str_replace(s, old, new) == [i \in 1..Len(s) |-> IF s[i] = old THEN new ELSE s[i]]

\* The slice s[lo:hi] for 0 <= lo, 0 <= hi (0-based bounds, clamped as Python does).
slice(s, lo, hi) ==
  LET h == IF hi > Len(s) THEN Len(s) ELSE hi
  IN IF lo >= h THEN <<>> ELSE SubSeq(s, lo + 1, h)

\* seq[i] for a 0-based index i that may be negative (Python counts from the end).
py_index(s, i) == IF i < 0 THEN s[Len(s) + i + 1] ELSE s[i + 1]

\* All strings of at most n characters drawn from chars.
StringsUpTo(chars, n) == UNION {[1..k -> chars] : k \in 0..n}

----------------------------------------------------------------------------
(* utils/math_utils.py *)

mod(n, m) == ((n % m) + m) % m

abs(a) == IF a < 0 THEN -a ELSE a

RECURSIVE gcd_loop(_, _)
gcd_loop(a, b) == IF b # 0 THEN gcd_loop(b, a % b) ELSE a

gcd(a, b) == gcd_loop(abs(a), abs(b))

RECURSIVE extended_gcd_no_quotient(_, _)
\* An extended Euclid that leaves the quotient b // a out of the coefficient.
extended_gcd_no_quotient(a, b) ==
  IF a = 0 THEN <<b, 0, 1>>
  ELSE LET r == extended_gcd_no_quotient(b % a, a)
       IN <<r[1], r[3] - r[2], r[2]>>

RECURSIVE extended_gcd(_, _)
extended_gcd(a, b) ==
  IF a = 0 THEN <<b, 0, 1>>
  ELSE LET r == extended_gcd(b % a, a)
           gcd_val == r[1]
           x1 == r[2]
           y1 == r[3]
           x == y1 - (b \div a) * x1
           y == x1
       IN <<gcd_val, x, y>>

NoneInt == -1

\* An inverse that returns the Bezout coefficient as it comes, unreduced.
mod_inverse_unreduced(a, m) ==
  LET r == extended_gcd(mod(a, m), m)
  IN IF r[1] # 1 THEN NoneInt ELSE r[2]

mod_inverse(a, m) ==
  LET r == extended_gcd(mod(a, m), m)
      gcd_val == r[1]
      x == r[2]
  IN IF gcd_val # 1 THEN NoneInt ELSE mod(x, m)

matrix_multiply_mod(A, B, m) ==
  << << mod(A[1][1] * B[1][1] + A[1][2] * B[2][1], m),
        mod(A[1][1] * B[1][2] + A[1][2] * B[2][2], m) >>,
     << mod(A[2][1] * B[1][1] + A[2][2] * B[2][1], m),
        mod(A[2][1] * B[1][2] + A[2][2] * B[2][2], m) >> >>

matrix_vector_multiply_mod(M, v, m) ==
  << mod(M[1][1] * v[1] + M[1][2] * v[2], m),
     mod(M[2][1] * v[1] + M[2][2] * v[2], m) >>

determinant_2x2(M) == M[1][1] * M[2][2] - M[1][2] * M[2][1]

\* An inverse whose adjugate negates the diagonal instead of the off-diagonal.
matrix_inverse_mod_26_diagonal(M) ==
  LET det_inv == mod_inverse(mod(determinant_2x2(M), 26), 26)
  IN IF det_inv = NoneInt THEN NoneList
     ELSE << << mod(det_inv * (-M[2][2]), 26), mod(det_inv * M[1][2], 26) >>,
             << mod(det_inv * M[2][1], 26), mod(det_inv * (-M[1][1]), 26) >> >>

matrix_inverse_mod_26(M) ==
  LET det == determinant_2x2(M)
      det_mod == mod(det, 26)
      det_inv == mod_inverse(det_mod, 26)
      adjugate == << << M[2][2], -M[1][2] >>, << -M[2][1], M[1][1] >> >>
  IN IF det_inv = NoneInt THEN NoneList
     ELSE << << mod(det_inv * adjugate[1][1], 26), mod(det_inv * adjugate[1][2], 26) >>,
             << mod(det_inv * adjugate[2][1], 26), mod(det_inv * adjugate[2][2], 26) >> >>

\* An invertibility test that only looks for the factor 2.
is_matrix_invertible_mod_26_odd(M) ==
  LET det == mod(determinant_2x2(M), 26)
  IN gcd(det, 2) = 1

is_matrix_invertible_mod_26(M) ==
  LET det == mod(determinant_2x2(M), 26)
  IN gcd(det, 26) = 1

----------------------------------------------------------------------------
(* ciphers/caesar.py *)

CaesarCipher_encrypt(plaintext, shift0) ==
  LET shift == mod(shift0, 26)
      chars == str_upper(plaintext)
      original_pos(char) == ord(char) - ord("A")
      new_pos(char) == mod(original_pos(char) + shift, 26)
      new_char(char) == chr(new_pos(char) + ord("A"))
      result == [i \in 1..Len(chars) |->
                   IF isalpha(chars[i]) THEN new_char(chars[i]) ELSE chars[i]]
      letters == only_alpha(chars)
      steps == [k \in 1..Len(letters) |->
                  [original |-> letters[k],
                   original_pos |-> original_pos(letters[k]),
                   shift |-> shift,
                   new_pos |-> new_pos(letters[k]),
                   encrypted |-> new_char(letters[k])]]
  IN [result |-> result, steps |-> steps, shift |-> shift, operation |-> "encrypt"]

\* A decrypt that shifts the same way as encrypt.
CaesarCipher_decrypt_forward(ciphertext, shift0) ==
  [CaesarCipher_encrypt(ciphertext, shift0) EXCEPT !.operation = "decrypt"]

CaesarCipher_decrypt(ciphertext, shift0) ==
  LET shift == mod(shift0, 26)
      chars == str_upper(ciphertext)
      original_pos(char) == ord(char) - ord("A")
      new_pos(char) == mod(original_pos(char) - shift, 26)
      new_char(char) == chr(new_pos(char) + ord("A"))
      result == [i \in 1..Len(chars) |->
                   IF isalpha(chars[i]) THEN new_char(chars[i]) ELSE chars[i]]
      letters == only_alpha(chars)
      steps == [k \in 1..Len(letters) |->
                  [original |-> letters[k],
                   original_pos |-> original_pos(letters[k]),
                   shift |-> shift,
                   new_pos |-> new_pos(letters[k]),
                   decrypted |-> new_char(letters[k])]]
  IN [result |-> result, steps |-> steps, shift |-> shift, operation |-> "decrypt"]

----------------------------------------------------------------------------
(* ciphers/affine.py *)

\* None where a dict is expected: what get_alphabet_mapping and
\* _try_crack_at_position return for None.
NoneDict == [none |-> TRUE]

VALID_A_VALUES == <<1, 3, 5, 7, 9, 11, 15, 17, 19, 21, 23, 25>>

\* A key check that only rejects the even values of a.
AffineCipher_is_valid_key_odd(a) == a % 2 = 1

\* A key check by membership in the list of valid values.
AffineCipher_is_valid_key_listed(a) == \E i \in 1..Len(VALID_A_VALUES) : VALID_A_VALUES[i] = a

AffineCipher_is_valid_key(a) == gcd(a, 26) = 1

AffineCipher_get_inverse(a) == mod_inverse(a, 26)

\* The record both directions return for an invalid a.
AffineCipher_invalid_key(a) ==
  [error |-> <<"Invalid key 'a=", a, "'. Must be coprime with 26.">>,
   valid_a_values |-> VALID_A_VALUES]

AffineCipher_encrypt(plaintext, a, b0) ==
  IF ~AffineCipher_is_valid_key(a) THEN AffineCipher_invalid_key(a)
  ELSE
  LET b == mod(b0, 26)
      chars == str_upper(plaintext)
      xof(char) == ord(char) - ord("A")
      encrypted_pos(char) == mod(a * xof(char) + b, 26)
      encrypted_char(char) == chr(encrypted_pos(char) + ord("A"))
      result == [i \in 1..Len(chars) |->
                   IF isalpha(chars[i]) THEN encrypted_char(chars[i]) ELSE chars[i]]
      letters == only_alpha(chars)
      steps == [k \in 1..Len(letters) |->
                  [original |-> letters[k],
                   x |-> xof(letters[k]),
                   a |-> a,
                   b |-> b,
                   encrypted_pos |-> encrypted_pos(letters[k]),
                   encrypted |-> encrypted_char(letters[k])]]
      a_inverse == AffineCipher_get_inverse(a)
  IN [result |-> result, steps |-> steps, key |-> [a |-> a, b |-> b],
      a_inverse |-> a_inverse, operation |-> "encrypt"]

\* A mapping that leaves the additive key out.
AffineCipher_get_alphabet_mapping_no_b(a, b) ==
  IF ~AffineCipher_is_valid_key(a) THEN NoneDict
  ELSE [original \in UpperSet |-> chr(mod(a * (ord(original) - ord("A")), 26) + ord("A"))]

\* The dict has the key chr(i + ord('A')) for each i in range(26).
AffineCipher_get_alphabet_mapping(a, b) ==
  IF ~AffineCipher_is_valid_key(a) THEN NoneDict
  ELSE [original \in UpperSet |->
          chr(mod(a * (ord(original) - ord("A")) + b, 26) + ord("A"))]

\* A decrypt that multiplies by a instead of by its inverse.
AffineCipher_decrypt_no_inverse(ciphertext, a, b0) ==
  IF ~AffineCipher_is_valid_key(a) THEN AffineCipher_invalid_key(a)
  ELSE
  LET b == mod(b0, 26)
      chars == str_upper(ciphertext)
      pos(char) == mod(a * ((ord(char) - ord("A")) - b), 26)
  IN [result |-> [i \in 1..Len(chars) |->
                    IF isalpha(chars[i]) THEN chr(pos(chars[i]) + ord("A")) ELSE chars[i]],
      steps |-> <<>>, key |-> [a |-> a, b |-> b],
      a_inverse |-> a, operation |-> "decrypt"]

AffineCipher_decrypt(ciphertext, a, b0) ==
  IF ~AffineCipher_is_valid_key(a) THEN AffineCipher_invalid_key(a)
  ELSE
  LET a_inverse == AffineCipher_get_inverse(a)
      b == mod(b0, 26)
      chars == str_upper(ciphertext)
      yof(char) == ord(char) - ord("A")
      decrypted_pos(char) == mod(a_inverse * (yof(char) - b), 26)
      decrypted_char(char) == chr(decrypted_pos(char) + ord("A"))
      result == [i \in 1..Len(chars) |->
                   IF isalpha(chars[i]) THEN decrypted_char(chars[i]) ELSE chars[i]]
      letters == only_alpha(chars)
      steps == [k \in 1..Len(letters) |->
                  [original |-> letters[k],
                   y |-> yof(letters[k]),
                   a_inverse |-> a_inverse,
                   b |-> b,
                   decrypted_pos |-> decrypted_pos(letters[k]),
                   decrypted |-> decrypted_char(letters[k])]]
  IN [result |-> result, steps |-> steps, key |-> [a |-> a, b |-> b],
      a_inverse |-> a_inverse, operation |-> "decrypt"]

----------------------------------------------------------------------------
(* ciphers/playfair.py *)

\* 'ABCDEFGHIKLMNOPQRSTUVWXYZ': the alphabet without J
ALPHABET_NO_J == SelectSeq(ASCII_UPPER, LAMBDA c : c # "J")

\* The elements of a sequence, as a set.
Range(s) == {s[i] : i \in 1..Len(s)}

RECURSIVE add_unseen(_, _)
\* for char in chars: if char not in seen: seen.add(char); matrix_chars.append(char)
\* (seen is always the set of the characters of matrix_chars)
add_unseen(chars, matrix_chars) ==
  IF chars = <<>> THEN matrix_chars
  ELSE IF Head(chars) \notin Range(matrix_chars)
       THEN add_unseen(Tail(chars), Append(matrix_chars, Head(chars)))
       ELSE add_unseen(Tail(chars), matrix_chars)

PlayfairCipher_generate_matrix(keyword0) ==
  LET keyword == only_alpha(str_replace(str_upper(keyword0), "J", "I"))
      matrix_chars == add_unseen(ALPHABET_NO_J, add_unseen(keyword, <<>>))
  IN [r \in 1..5 |-> slice(matrix_chars, 5 * (r - 1), 5 * (r - 1) + 5)]

\* Returns the 0-based <<row, col>>, or <<-1, -1>>.
PlayfairCipher_find_position(m, char0) ==
  LET up == str_upper(<<char0>>)
      char == IF up = <<"J">> THEN <<"I">> ELSE up
      hits == {rc \in (0..4) \X (0..4) : <<m[rc[1] + 1][rc[2] + 1]>> = char}
  IN IF hits = {} THEN <<-1, -1>>
     ELSE CHOOSE rc \in hits :
            \A other \in hits : 5 * rc[1] + rc[2] <= 5 * other[1] + other[2]

\* text.upper().replace('J', 'I'), letters only
playfair_clean(t) == only_alpha(str_replace(str_upper(t), "J", "I"))

RECURSIVE prepare_loop_skip_repeat(_, _)
\* A scan that pairs a repeated letter with the filler and then skips its twin.
prepare_loop_skip_repeat(t, i) ==
  IF ~(i < Len(t)) THEN <<>>
  ELSE IF i + 1 >= Len(t)
       THEN << <<t[i + 1], "X">> >> \o prepare_loop_skip_repeat(t, i + 1)
       ELSE IF t[i + 1] = t[i + 2]
            THEN << <<t[i + 1], "X">> >> \o prepare_loop_skip_repeat(t, i + 2)
            ELSE << <<t[i + 1], t[i + 2]>> >> \o prepare_loop_skip_repeat(t, i + 2)

RECURSIVE prepare_loop(_, _)
\* The while loop of prepare_text from the 0-based index i on: the digraphs it appends.
prepare_loop(t, i) ==
  IF ~(i < Len(t)) THEN <<>>
  ELSE IF i + 1 >= Len(t)
       THEN << <<t[i + 1], "X">> >> \o prepare_loop(t, i + 1)
       ELSE IF t[i + 1] = t[i + 2]
            THEN << <<t[i + 1], "X">> >> \o prepare_loop(t, i + 1)
            ELSE << <<t[i + 1], t[i + 2]>> >> \o prepare_loop(t, i + 2)

PlayfairCipher_prepare_text_skip_repeat(t) == prepare_loop_skip_repeat(playfair_clean(t), 0)

PlayfairCipher_prepare_text(t) == prepare_loop(playfair_clean(t), 0)

RECURSIVE join(_)
\* ''.join(parts)
join(parts) == IF parts = <<>> THEN <<>> ELSE Head(parts) \o join(Tail(parts))

\* The rules with the shift of encrypt in both directions.
playfair_digraph_forward(m, digraph, d) ==
  LET p1 == PlayfairCipher_find_position(m, digraph[1])
      p2 == PlayfairCipher_find_position(m, digraph[2])
      cell(r, c) == py_index(py_index(m, r), c)
  IN IF p1[1] = p2[1]
     THEN [out |-> <<cell(p1[1], (p1[2] + 1) % 5), cell(p2[1], (p2[2] + 1) % 5)>>,
           rule |-> IF d = 1 THEN "Same Row (shift right)" ELSE "Same Row (shift left)",
           pos1 |-> p1, pos2 |-> p2]
     ELSE IF p1[2] = p2[2]
     THEN [out |-> <<cell((p1[1] + 1) % 5, p1[2]), cell((p2[1] + 1) % 5, p2[2])>>,
           rule |-> IF d = 1 THEN "Same Column (shift down)" ELSE "Same Column (shift up)",
           pos1 |-> p1, pos2 |-> p2]
     ELSE [out |-> <<cell(p1[1], p2[2]), cell(p2[1], p1[2])>>,
           rule |-> "Rectangle (swap columns)", pos1 |-> p1, pos2 |-> p2]

\* One digraph through the rules; d is +1 to encrypt and -1 to decrypt.
playfair_digraph(m, digraph, d) ==
  LET char1 == digraph[1]
      char2 == digraph[2]
      p1 == PlayfairCipher_find_position(m, char1)
      p2 == PlayfairCipher_find_position(m, char2)
      row1 == p1[1]
      col1 == p1[2]
      row2 == p2[1]
      col2 == p2[2]
      cell(r, c) == py_index(py_index(m, r), c)
  IN IF row1 = row2
     THEN [out |-> <<cell(row1, (col1 + d) % 5), cell(row2, (col2 + d) % 5)>>,
           rule |-> IF d = 1 THEN "Same Row (shift right)" ELSE "Same Row (shift left)",
           pos1 |-> p1, pos2 |-> p2]
     ELSE IF col1 = col2
     THEN [out |-> <<cell((row1 + d) % 5, col1), cell((row2 + d) % 5, col2)>>,
           rule |-> IF d = 1 THEN "Same Column (shift down)" ELSE "Same Column (shift up)",
           pos1 |-> p1, pos2 |-> p2]
     ELSE [out |-> <<cell(row1, col2), cell(row2, col1)>>,
           rule |-> "Rectangle (swap columns)", pos1 |-> p1, pos2 |-> p2]

PlayfairCipher_encrypt(plaintext, keyword) ==
  LET m == PlayfairCipher_generate_matrix(keyword)
      ds == PlayfairCipher_prepare_text(plaintext)
      steps == [k \in 1..Len(ds) |->
                  LET t == playfair_digraph(m, ds[k], 1)
                  IN [digraph |-> ds[k], pos1 |-> t.pos1, pos2 |-> t.pos2,
                      rule |-> t.rule, encrypted |-> t.out]]
  IN [result |-> join([k \in 1..Len(ds) |-> steps[k].encrypted]),
      steps |-> steps,
      matrix |-> m,
      keyword |-> str_upper(keyword),
      prepared_text |-> join(ds),
      digraphs |-> ds,
      operation |-> "encrypt"]

\* A decrypt that prepares the ciphertext as encrypt prepares the plaintext,
\* fillers included.
PlayfairCipher_decrypt_prepared(ciphertext0, keyword) ==
  LET m == PlayfairCipher_generate_matrix(keyword)
      ds == PlayfairCipher_prepare_text(ciphertext0)
      steps == [k \in 1..Len(ds) |->
                  LET t == playfair_digraph(m, ds[k], -1)
                  IN [digraph |-> ds[k], pos1 |-> t.pos1, pos2 |-> t.pos2,
                      rule |-> t.rule, decrypted |-> t.out]]
  IN [result |-> join([k \in 1..Len(ds) |-> steps[k].decrypted]),
      steps |-> steps,
      matrix |-> m,
      keyword |-> str_upper(keyword),
      digraphs |-> ds,
      operation |-> "decrypt"]

PlayfairCipher_decrypt(ciphertext0, keyword) ==
  LET m == PlayfairCipher_generate_matrix(keyword)
      ciphertext == playfair_clean(ciphertext0)
      ds == [k \in 1..((Len(ciphertext) + 1) \div 2) |->
               slice(ciphertext, 2 * (k - 1), 2 * (k - 1) + 2)]
      whole == SelectSeq(ds, LAMBDA digraph : ~(Len(digraph) < 2))
      steps == [k \in 1..Len(whole) |->
                  LET t == playfair_digraph(m, whole[k], -1)
                  IN [digraph |-> whole[k], pos1 |-> t.pos1, pos2 |-> t.pos2,
                      rule |-> t.rule, decrypted |-> t.out]]
  IN [result |-> join([k \in 1..Len(whole) |-> steps[k].decrypted]),
      steps |-> steps,
      matrix |-> m,
      keyword |-> str_upper(keyword),
      digraphs |-> ds,
      operation |-> "decrypt"]

----------------------------------------------------------------------------
(* ciphers/hill.py *)

\* A validation that accepts every 2x2 matrix whose determinant is not 0 mod 26.
HillCipher_validate_matrix_lenient(m) ==
  IF Len(m) # 2 \/ Len(m[1]) # 2 \/ Len(m[2]) # 2
  THEN [valid |-> FALSE, error |-> <<"Matrix must be 2x2">>]
  ELSE LET det == determinant_2x2(m)
           det_mod == mod(det, 26)
           is_invertible == det_mod # 0
       IN [valid |-> is_invertible,
           determinant |-> det,
           determinant_mod_26 |-> det_mod,
           gcd_with_26 |-> gcd(det_mod, 26),
           error |-> IF is_invertible THEN NoneList
                     ELSE <<"Matrix not invertible. gcd(", det_mod, ", 26) = ",
                            gcd(det_mod, 26), " != 1">>]

\* A validation that reports a wrong shape as a matrix that is not invertible.
HillCipher_validate_matrix_unnamed(m) ==
  IF Len(m) # 2 \/ Len(m[1]) # 2 \/ Len(m[2]) # 2
  THEN [valid |-> FALSE, error |-> <<"Matrix not invertible">>]
  ELSE LET det == determinant_2x2(m)
           det_mod == mod(det, 26)
           is_invertible == is_matrix_invertible_mod_26(m)
       IN [valid |-> is_invertible,
           determinant |-> det,
           determinant_mod_26 |-> det_mod,
           gcd_with_26 |-> gcd(det_mod, 26),
           error |-> IF is_invertible THEN NoneList
                     ELSE <<"Matrix not invertible. gcd(", det_mod, ", 26) = ",
                            gcd(det_mod, 26), " != 1">>]

HillCipher_validate_matrix(m) ==
  IF Len(m) # 2 \/ Len(m[1]) # 2 \/ Len(m[2]) # 2
  THEN [valid |-> FALSE, error |-> <<"Matrix must be 2x2">>]
  ELSE LET det == determinant_2x2(m)
           det_mod == mod(det, 26)
           is_invertible == is_matrix_invertible_mod_26(m)
       IN [valid |-> is_invertible,
           determinant |-> det,
           determinant_mod_26 |-> det_mod,
           gcd_with_26 |-> gcd(det_mod, 26),
           error |-> IF is_invertible THEN NoneList
                     ELSE <<"Matrix not invertible. gcd(", det_mod, ", 26) = ",
                            gcd(det_mod, 26), " != 1">>]

HillCipher_prepare_text(t0) ==
  LET t == only_alpha(str_upper(t0))
  IN IF Len(t) % 2 # 0 THEN Append(t, "X") ELSE t

\* The prepared text has even length: vector k holds its letters 2k-1 and 2k.
HillCipher_text_to_vectors(t) ==
  [k \in 1..((Len(t) + 1) \div 2) |->
     <<ord(t[2 * k - 1]) - ord("A"), ord(t[2 * k]) - ord("A")>>]

HillCipher_vectors_to_text(vectors) ==
  join([k \in 1..Len(vectors) |->
          <<chr(vectors[k][1] + ord("A")), chr(vectors[k][2] + ord("A"))>>])

HillCipher_encrypt(plaintext, key_matrix) ==
  LET validation == HillCipher_validate_matrix(key_matrix)
  IN IF ~validation.valid THEN [error |-> validation.error]
     ELSE
     LET prepared == HillCipher_prepare_text(plaintext)
         vectors == HillCipher_text_to_vectors(prepared)
         result_vectors == [i \in 1..Len(vectors) |->
                              matrix_vector_multiply_mod(key_matrix, vectors[i], 26)]
         steps == [i \in 1..Len(vectors) |->
                     [pair |-> slice(prepared, (i - 1) * 2, (i - 1) * 2 + 2),
                      vector |-> vectors[i],
                      result_vector |-> result_vectors[i],
                      encrypted_pair |-> <<chr(result_vectors[i][1] + ord("A")),
                                           chr(result_vectors[i][2] + ord("A"))>>]]
     IN [result |-> HillCipher_vectors_to_text(result_vectors),
         steps |-> steps,
         key_matrix |-> key_matrix,
         inverse_matrix |-> matrix_inverse_mod_26(key_matrix),
         determinant |-> validation.determinant,
         determinant_mod_26 |-> validation.determinant_mod_26,
         prepared_text |-> prepared,
         operation |-> "encrypt"]

HillCipher_decrypt(ciphertext, key_matrix) ==
  LET validation == HillCipher_validate_matrix(key_matrix)
  IN IF ~validation.valid THEN [error |-> validation.error]
     ELSE
     LET inverse_matrix == matrix_inverse_mod_26(key_matrix)
     IN IF inverse_matrix = NoneList THEN [error |-> <<"Could not compute matrix inverse">>]
        ELSE
        LET prepared == HillCipher_prepare_text(ciphertext)
            vectors == HillCipher_text_to_vectors(prepared)
            result_vectors == [i \in 1..Len(vectors) |->
                                 matrix_vector_multiply_mod(inverse_matrix, vectors[i], 26)]
            steps == [i \in 1..Len(vectors) |->
                        [pair |-> slice(prepared, (i - 1) * 2, (i - 1) * 2 + 2),
                         vector |-> vectors[i],
                         result_vector |-> result_vectors[i],
                         decrypted_pair |-> <<chr(result_vectors[i][1] + ord("A")),
                                              chr(result_vectors[i][2] + ord("A"))>>]]
        IN [result |-> HillCipher_vectors_to_text(result_vectors),
            steps |-> steps,
            key_matrix |-> key_matrix,
            inverse_matrix |-> inverse_matrix,
            determinant |-> validation.determinant,
            determinant_mod_26 |-> validation.determinant_mod_26,
            prepared_text |-> prepared,
            operation |-> "decrypt"]

\* The 2x2 matrix whose columns are the two digraphs of a 4-letter window.
window_matrix(w) ==
  << <<ord(w[1]) - ord("A"), ord(w[3]) - ord("A")>>,
     <<ord(w[2]) - ord("A"), ord(w[4]) - ord("A")>> >>

\* A window solver that multiplies the two matrices in the other order.
HillCipher_try_crack_at_position_swapped(plaintext, ciphertext, pos) ==
  LET p == slice(plaintext, pos, pos + 4)
      c == slice(ciphertext, pos, pos + 4)
  IN IF Len(p) < 4 \/ Len(c) < 4 THEN NoneDict
     ELSE LET P == window_matrix(p)
              det_P == determinant_2x2(P)
              det_P_mod == mod(det_P, 26)
          IN IF gcd(det_P_mod, 26) # 1 THEN NoneDict
             ELSE LET C == window_matrix(c)
                      P_inv == matrix_inverse_mod_26(P)
                      K == matrix_multiply_mod(P_inv, C, 26)
                  IN [position |-> pos, used_plaintext |-> p, used_ciphertext |-> c,
                      key_matrix |-> K, P |-> P, C |-> C, P_inv |-> P_inv,
                      det_P |-> det_P, det_P_mod |-> det_P_mod]

HillCipher_try_crack_at_position(plaintext, ciphertext, pos) ==
  LET p == slice(plaintext, pos, pos + 4)
      c == slice(ciphertext, pos, pos + 4)
  IN IF Len(p) < 4 \/ Len(c) < 4 THEN NoneDict
     ELSE LET P == window_matrix(p)
              det_P == determinant_2x2(P)
              det_P_mod == mod(det_P, 26)
          IN IF gcd(det_P_mod, 26) # 1 THEN NoneDict
             ELSE LET C == window_matrix(c)
                      P_inv == matrix_inverse_mod_26(P)
                      K == matrix_multiply_mod(C, P_inv, 26)
                  IN [position |-> pos, used_plaintext |-> p, used_ciphertext |-> c,
                      key_matrix |-> K, P |-> P, C |-> C, P_inv |-> P_inv,
                      det_P |-> det_P, det_P_mod |-> det_P_mod]

RECURSIVE crack_search_unlogged(_, _, _, _, _)
\* A search that keeps no entry for a position it rejects.
crack_search_unlogged(plaintext_full, ciphertext_full, pos, min_len, tried_positions) ==
  IF ~(pos < min_len - 3)
  THEN [tried_positions |-> tried_positions, crack_result |-> NoneDict]
  ELSE
  LET result == HillCipher_try_crack_at_position(plaintext_full, ciphertext_full, pos)
  IN IF result = NoneDict
     THEN crack_search_unlogged(plaintext_full, ciphertext_full, pos + 2, min_len,
                                tried_positions)
     ELSE [tried_positions |->
             Append(tried_positions,
                    [position |-> pos,
                     plaintext |-> slice(plaintext_full, pos, pos + 4),
                     ciphertext |-> slice(ciphertext_full, pos, pos + 4),
                     invertible |-> TRUE, reason |-> <<"Matrix is invertible">>]),
           crack_result |-> result]

RECURSIVE crack_search_short(_, _, _, _, _)
\* A search whose range stops one position early: range(pos, min_len - 4, 2).
crack_search_short(plaintext_full, ciphertext_full, pos, min_len, tried_positions) ==
  IF ~(pos < min_len - 4)
  THEN [tried_positions |-> tried_positions, crack_result |-> NoneDict]
  ELSE
  LET result == HillCipher_try_crack_at_position(plaintext_full, ciphertext_full, pos)
      p_window == slice(plaintext_full, pos, pos + 4)
      c_window == slice(ciphertext_full, pos, pos + 4)
  IN IF result = NoneDict
     THEN LET det_P_mod == mod(determinant_2x2(window_matrix(p_window)), 26)
              entry == [position |-> pos, plaintext |-> p_window, ciphertext |-> c_window,
                        invertible |-> FALSE,
                        reason |-> <<"gcd(", det_P_mod, ", 26) = ",
                                     gcd(det_P_mod, 26), " != 1">>]
          IN crack_search_short(plaintext_full, ciphertext_full, pos + 2, min_len,
                                Append(tried_positions, entry))
     ELSE [tried_positions |->
             Append(tried_positions,
                    [position |-> pos, plaintext |-> p_window, ciphertext |-> c_window,
                     invertible |-> TRUE, reason |-> <<"Matrix is invertible">>]),
           crack_result |-> result]

RECURSIVE crack_search(_, _, _, _, _)
\* The for loop of crack over pos in range(pos, min_len - 3, 2): the positions
\* tried and the first window's solution, or NoneDict.
crack_search(plaintext_full, ciphertext_full, pos, min_len, tried_positions) ==
  IF ~(pos < min_len - 3)
  THEN [tried_positions |-> tried_positions, crack_result |-> NoneDict]
  ELSE
  LET result == HillCipher_try_crack_at_position(plaintext_full, ciphertext_full, pos)
      p_window == slice(plaintext_full, pos, pos + 4)
      c_window == slice(ciphertext_full, pos, pos + 4)
  IN IF result = NoneDict
     THEN LET P == window_matrix(p_window)
              det_P == determinant_2x2(P)
              det_P_mod == mod(det_P, 26)
              entry == [position |-> pos, plaintext |-> p_window, ciphertext |-> c_window,
                        invertible |-> FALSE,
                        reason |-> <<"gcd(", det_P_mod, ", 26) = ",
                                     gcd(det_P_mod, 26), " != 1">>]
          IN crack_search(plaintext_full, ciphertext_full, pos + 2, min_len,
                          Append(tried_positions, entry))
     ELSE [tried_positions |->
             Append(tried_positions,
                    [position |-> pos, plaintext |-> p_window, ciphertext |-> c_window,
                     invertible |-> TRUE, reason |-> <<"Matrix is invertible">>]),
           crack_result |-> result]

\* The step crack adds when it tried more than one position, or one in vain.
crack_search_steps(tried_positions) ==
  IF Len(tried_positions) > 1
     \/ (Len(tried_positions) = 1 /\ ~tried_positions[1].invertible)
  THEN << [step |-> "Search for invertible plaintext matrix",
           tried |-> Len(tried_positions),
           positions_tried |-> tried_positions] >>
  ELSE <<>>

\* What crack returns when no position gave an invertible matrix.
crack_exhausted(tried_positions) ==
  [error |-> <<"No invertible plaintext matrix found. All positions tried have gcd(det, 26) != 1">>,
   success |-> FALSE,
   steps |-> crack_search_steps(tried_positions),
   positions_tried |-> tried_positions,
   suggestion |-> "Try a longer plaintext-ciphertext pair with different letter combinations"]

\* A report that verifies the key on the window it came from only.
crack_verified_window(plaintext_full, ciphertext_full, tried_positions, crack_result) ==
  LET K == crack_result.key_matrix
      verification == HillCipher_encrypt(crack_result.used_plaintext, K)
      encrypted == IF "result" \in DOMAIN verification THEN verification.result ELSE <<>>
      is_correct == encrypted = crack_result.used_ciphertext
  IN [success |-> is_correct,
      key_matrix |-> K,
      steps |-> crack_search_steps(tried_positions) \o
         << [step |-> "Form plaintext matrix P", matrix |-> crack_result.P,
             position |-> crack_result.position],
            [step |-> "Form ciphertext matrix C", matrix |-> crack_result.C],
            [step |-> "Calculate det(P)", determinant |-> crack_result.det_P,
             determinant_mod_26 |-> crack_result.det_P_mod],
            [step |-> "Calculate P^-1 mod 26", matrix |-> crack_result.P_inv],
            [step |-> "Calculate K = C x P^-1 mod 26", matrix |-> K],
            [step |-> "Verify recovered key", expected |-> ciphertext_full,
             verified |-> is_correct] >>,
      known_plaintext |-> plaintext_full,
      known_ciphertext |-> ciphertext_full,
      used_window |-> [position |-> crack_result.position,
                       plaintext |-> crack_result.used_plaintext,
                       ciphertext |-> crack_result.used_ciphertext],
      verification |-> [encrypted |-> encrypted,
                        expected |-> ciphertext_full,
                        match |-> is_correct]]

\* What crack returns for the first invertible window: the key, verified by
\* encrypting the full plaintext with it.
crack_verified(plaintext_full, ciphertext_full, tried_positions, crack_result) ==
  LET K == crack_result.key_matrix
      verification == HillCipher_encrypt(plaintext_full, K)
      encrypted == IF "result" \in DOMAIN verification THEN verification.result ELSE <<>>
      is_correct == encrypted = ciphertext_full
  IN [success |-> is_correct,
      key_matrix |-> K,
      steps |-> crack_search_steps(tried_positions) \o
         << [step |-> "Form plaintext matrix P", matrix |-> crack_result.P,
             position |-> crack_result.position],
            [step |-> "Form ciphertext matrix C", matrix |-> crack_result.C],
            [step |-> "Calculate det(P)", determinant |-> crack_result.det_P,
             determinant_mod_26 |-> crack_result.det_P_mod],
            [step |-> "Calculate P^-1 mod 26", matrix |-> crack_result.P_inv],
            [step |-> "Calculate K = C x P^-1 mod 26", matrix |-> K],
            [step |-> "Verify recovered key", expected |-> ciphertext_full,
             verified |-> is_correct] >>,
      known_plaintext |-> plaintext_full,
      known_ciphertext |-> ciphertext_full,
      used_window |-> [position |-> crack_result.position,
                       plaintext |-> crack_result.used_plaintext,
                       ciphertext |-> crack_result.used_ciphertext],
      verification |-> [encrypted |-> encrypted,
                        expected |-> ciphertext_full,
                        match |-> is_correct]]

\* A recovery that goes on to a later window when the first key does not
\* reproduce the ciphertext.
crack_aligned_retry(plaintext_full, ciphertext_full, min_len) ==
  LET search == crack_search(plaintext_full, ciphertext_full, 0, min_len, <<>>)
  IN IF search.crack_result = NoneDict
     THEN crack_exhausted(search.tried_positions)
     ELSE LET first == crack_verified(plaintext_full, ciphertext_full,
                                      search.tried_positions, search.crack_result)
              again == crack_search(plaintext_full, ciphertext_full,
                                    search.crack_result.position + 2, min_len,
                                    search.tried_positions)
          IN IF first.success \/ again.crack_result = NoneDict
             THEN first
             ELSE crack_verified(plaintext_full, ciphertext_full,
                                 again.tried_positions, again.crack_result)

\* crack on the two prepared texts cut to the same length min_len.
crack_aligned(plaintext_full, ciphertext_full, min_len) ==
  LET search == crack_search(plaintext_full, ciphertext_full, 0, min_len, <<>>)
  IN IF search.crack_result = NoneDict
     THEN crack_exhausted(search.tried_positions)
     ELSE crack_verified(plaintext_full, ciphertext_full,
                         search.tried_positions, search.crack_result)

HillCipher_crack(known_plaintext, known_ciphertext) ==
  LET plaintext_prepared == HillCipher_prepare_text(known_plaintext)
      ciphertext_prepared == HillCipher_prepare_text(known_ciphertext)
      min_len == IF Len(plaintext_prepared) < Len(ciphertext_prepared)
                 THEN Len(plaintext_prepared) ELSE Len(ciphertext_prepared)
  IN IF Len(plaintext_prepared) < 4 \/ Len(ciphertext_prepared) < 4
     THEN [error |-> <<"Need at least 4 characters of known plaintext and ciphertext">>,
           success |-> FALSE]
     ELSE crack_aligned(slice(plaintext_prepared, 0, min_len),
                        slice(ciphertext_prepared, 0, min_len), min_len)

----------------------------------------------------------------------------
(* The calls.  Each specification draws the arguments (a text and a key)   *)
(* and calls the static methods of the cipher class on them, as a caller  *)
(* of backend/app/ciphers does: encrypt, decrypt, and decrypt of what      *)
(* encrypt returned.  The methods take any str and any int; the records    *)
(* are the ones the methods return.                                        *)

\* r is a success record: it holds a result.
HasResult(r) == "result" \in DOMAIN r

\* r is a validation failure: it holds an error.
HasError(r) == "error" \in DOMAIN r

\* T is made only of the letters A-Z.
LettersAZ(T) == \A i \in 1..Len(T) : T[i] \in UpperSet

\* a shares no factor with 26 = 2 * 13.
Coprime26(a) == a % 2 # 0 /\ a % 13 # 0

----------------------------------------------------------------------------
(* Calls of CaesarCipher *)

MaxCaesarLen == 2

CaesarChars == {"A", "B", "M", "Z", "a", "z", " ", "1", "U+00E9", "U+00DF"}

CaesarShifts == -3..28

InitCaesar ==
  /\ pc = "start"
  /\ text \in StringsUpTo(CaesarChars, MaxCaesarLen)
  /\ key \in CaesarShifts
  /\ enc = NotCalled /\ dec = NotCalled /\ crk = NotCalled
  /\ matrix = NoneList /\ digraphs = NoneList
  /\ known = NoneList /\ args = NoneList /\ ret = NotCalled

CaesarEncrypt ==
  /\ pc = "start"
  /\ enc' = CaesarCipher_encrypt(text, key)
  /\ pc' = "encrypted"
  /\ UNCHANGED <<text, key, dec, crk, matrix, digraphs, known, args, ret>>

CaesarDecrypt ==
  /\ pc = "start"
  /\ dec' = CaesarCipher_decrypt(text, key)
  /\ pc' = "decrypted"
  /\ UNCHANGED <<text, key, enc, crk, matrix, digraphs, known, args, ret>>

CaesarDecryptEncrypted ==
  /\ pc = "encrypted"
  /\ dec' = CaesarCipher_decrypt(enc.result, key)
  /\ pc' = "roundtrip"
  /\ UNCHANGED <<text, key, enc, crk, matrix, digraphs, known, args, ret>>

NextCaesar == CaesarEncrypt \/ CaesarDecrypt \/ CaesarDecryptEncrypted

SpecCaesar == InitCaesar /\ [][NextCaesar]_vars

\* C1: Caesar round trip: for a shift in 0..25 and a text of letters A-Z only,
\* decrypting what encrypt returned, with the same shift, gives the text back.
C1_CaesarRoundTrip ==
  (pc = "roundtrip" /\ key \in 0..25 /\ LettersAZ(text)) => dec.result = text

\* A two-letter text was shifted to another text, wrapping past Z, and decrypted.
C1_Witness ==
  /\ pc = "roundtrip" /\ key \in 1..25 /\ LettersAZ(text) /\ Len(text) = 2
  /\ enc.result # text
  /\ \E i \in 1..2 : ord(enc.result[i]) < ord(text[i])
  /\ dec.result = text

\* The image of the character c under the shift s: c upper-cased, s places on.
ShiftedLetter(c, s) == ASCII_UPPER[((ord(char_upper(c)[1]) - 65 + s) % 26) + 1]

\* The record r (result and trace) is the input T with its non-alphabetic
\* characters in place and every alphabetic character replaced by its image
\* under the shift s, one trace record per alphabetic character, in order.
\* image(step) is the field of a trace record that holds the image.
CaesarPassThrough(r, T, s, image(_)) ==
  LET letters == SelectSeq(T, isalpha)
  IN /\ Len(r.result) = Len(T)
     /\ \A i \in 1..Len(T) :
           IF isalpha(T[i]) THEN r.result[i] = ShiftedLetter(T[i], s)
           ELSE r.result[i] = T[i]
     /\ Len(r.steps) = Len(letters)
     /\ \A k \in 1..Len(letters) :
           /\ <<r.steps[k].original>> = char_upper(letters[k])
           /\ image(r.steps[k]) = ShiftedLetter(letters[k], s)
           /\ r.steps[k].new_pos \in 0..25
           /\ r.steps[k].shift = key % 26

\* C20: in encrypt and decrypt every non-alphabetic character of the input
\* is unchanged at the same position of the result, the result is as long as
\* the input, and the trace holds one record per alphabetic character, in
\* input order, with that character (in upper case) and its image under the
\* shift normalized to 0..25.
C20_CaesarPassThrough ==
  /\ pc = "encrypted" =>
        CaesarPassThrough(enc, text, key % 26, LAMBDA step : step.encrypted)
  /\ pc = "decrypted" =>
        CaesarPassThrough(dec, text, (-key) % 26, LAMBDA step : step.decrypted)

----------------------------------------------------------------------------
(* Calls of AffineCipher *)

MaxAffineLen == 2

AffineChars == {"A", "B", "N", "Z", "b", " "}

AffineAs == -3..29

AffineBs == {-27, -1, 0, 1, 5, 25, 26, 30}

InitAffine ==
  /\ pc = "start"
  /\ text \in StringsUpTo(AffineChars, MaxAffineLen)
  /\ key \in AffineAs \X AffineBs
  /\ enc = NotCalled /\ dec = NotCalled /\ crk = NotCalled
  /\ matrix = NoneList /\ digraphs = NoneList
  /\ known = NoneList /\ args = NoneList /\ ret = NotCalled

AffineEncrypt ==
  /\ pc = "start"
  /\ enc' = AffineCipher_encrypt(text, key[1], key[2])
  /\ pc' = "encrypted"
  /\ UNCHANGED <<text, key, dec, crk, matrix, digraphs, known, args, ret>>

AffineDecrypt ==
  /\ pc = "start"
  /\ dec' = AffineCipher_decrypt(text, key[1], key[2])
  /\ pc' = "decrypted"
  /\ UNCHANGED <<text, key, enc, crk, matrix, digraphs, known, args, ret>>

AffineDecryptEncrypted ==
  /\ pc = "encrypted"
  /\ HasResult(enc)
  /\ dec' = AffineCipher_decrypt(enc.result, key[1], key[2])
  /\ pc' = "roundtrip"
  /\ UNCHANGED <<text, key, enc, crk, matrix, digraphs, known, args, ret>>

AffineMapping ==
  /\ pc = "start"
  /\ ret' = [function |-> "get_alphabet_mapping",
             value |-> AffineCipher_get_alphabet_mapping(key[1], key[2])]
  /\ pc' = "mapped"
  /\ UNCHANGED <<text, key, enc, dec, crk, matrix, digraphs, known, args>>

NextAffine == AffineEncrypt \/ AffineDecrypt \/ AffineDecryptEncrypted \/ AffineMapping

SpecAffine == InitAffine /\ [][NextAffine]_vars

\* C2: Affine round trip: for a coprime with 26, any integer b and a text of
\* letters A-Z only, decrypting what encrypt returned, with the same key,
\* gives the text back.
C2_AffineRoundTrip ==
  (pc = "roundtrip" /\ Coprime26(key[1]) /\ LettersAZ(text)) => dec.result = text

\* A two-letter text went through a key with a outside 1..25 and b outside 0..25,
\* was changed by it, and came back.
C2_Witness ==
  /\ pc = "roundtrip" /\ key = <<29, -27>> /\ text = <<"B", "Z">>
  /\ enc.result # text
  /\ dec.result = text

\* C3: for a even or a multiple of 13 (0 and 26 included), any text and any b,
\* encrypt and decrypt return a record with an error and with neither a result
\* nor steps.
C3_InvalidAIsError ==
  (key[1] % 2 = 0 \/ key[1] % 13 = 0) =>
     /\ pc = "encrypted" =>
          HasError(enc) /\ ~HasResult(enc) /\ "steps" \notin DOMAIN enc
     /\ pc = "decrypted" =>
          HasError(dec) /\ ~HasResult(dec) /\ "steps" \notin DOMAIN dec

\* decrypt refused a = 13 on a text with letters.
C3_Witness ==
  /\ pc = "decrypted" /\ key[1] = 13 /\ Len(text) = 2 /\ LettersAZ(text)
  /\ HasError(dec)

\* C4 as stated: encrypt and decrypt succeed exactly when a is one of the 12
\* listed integers 1,3,5,7,9,11,15,17,19,21,23,25, and fail for 27 and -1.
C4_ListedValuesOnly ==
  LET listed == key[1] \in {1, 3, 5, 7, 9, 11, 15, 17, 19, 21, 23, 25}
  IN /\ pc = "encrypted" => (HasResult(enc) <=> listed) /\ (HasError(enc) <=> ~listed)
     /\ pc = "decrypted" => (HasResult(dec) <=> listed) /\ (HasError(dec) <=> ~listed)

\* C4 amended: encrypt and decrypt succeed exactly when a is coprime with 26
\* (odd and no multiple of 13), whatever its size or sign: 27 and -1 succeed.
C4_CoprimeValuesOnly ==
  LET coprime == Coprime26(key[1])
  IN /\ pc = "encrypted" => (HasResult(enc) <=> coprime) /\ (HasError(enc) <=> ~coprime)
     /\ pc = "decrypted" => (HasResult(dec) <=> coprime) /\ (HasError(dec) <=> ~coprime)

\* encrypt accepted a = 27, which is not in the list, and enciphered as a = 1 does.
C4_Witness ==
  /\ pc = "encrypted" /\ key = <<27, 1>> /\ text = <<"A", "Z">>
  /\ HasResult(enc) /\ enc.result = <<"B", "A">>

\* C22: for every a with gcd(a, 26) = 1 and every integer b,
\* get_alphabet_mapping(a, b) has exactly the 26 keys A-Z, maps each letter L
\* to encrypt(L, a, b).result, and is a bijection on A-Z; for every a with
\* gcd(a, 26) # 1 it returns None.
C22_AlphabetMapping ==
  pc = "mapped" =>
     LET a == key[1]
         b == key[2]
         mapping == ret.value
     IN IF Coprime26(a)
        THEN /\ DOMAIN mapping = UpperSet
             /\ \A L \in UpperSet :
                   mapping[L] = AffineCipher_encrypt(<<L>>, a, b).result[1]
             /\ {mapping[L] : L \in UpperSet} = UpperSet
             /\ \A L \in UpperSet, N \in UpperSet : mapping[L] = mapping[N] => L = N
        ELSE mapping = NoneDict

\* The mapping of a = -3, b = 30 was built: A goes to E (30 mod 26 = 4) and
\* B to B (-3 + 30 = 27).
C22_Witness ==
  /\ pc = "mapped"
  /\ key = <<-3, 30>>
  /\ ret.value["A"] = "E"
  /\ ret.value["B"] = "B"

----------------------------------------------------------------------------
(* Calls of PlayfairCipher *)

MaxPlayfairLen == 3

PlayfairChars == {"H", "L", "X", "J", "Z", "l", " ", "U+00E9"}

HELLO == <<"H", "E", "L", "L", "O">>

MONARCHY == <<"M", "O", "N", "A", "R", "C", "H", "Y">>

PLAYFAIR == <<"P", "L", "A", "Y", "F", "A", "I", "R">>

PlayfairKeywords ==
  { <<>>, MONARCHY, PLAYFAIR,
    <<"j", "a", "z", "z">>,
    <<"J", "I", "J">>,
    <<"a", "1", " ", "b">>,
    <<"X", "Y", "Z">>,
    <<"U+00E9">>,
    <<"Z", "U+00E9", " ", "z">>,
    <<"U+00DF">> }

InitPlayfair ==
  /\ pc = "start"
  /\ text \in StringsUpTo(PlayfairChars, MaxPlayfairLen) \cup {HELLO}
  /\ key \in PlayfairKeywords
  /\ enc = NotCalled /\ dec = NotCalled /\ crk = NotCalled
  /\ matrix = NoneList /\ digraphs = NoneList
  /\ known = NoneList /\ args = NoneList /\ ret = NotCalled

PlayfairGenerateMatrix ==
  /\ pc = "start"
  /\ matrix' = PlayfairCipher_generate_matrix(key)
  /\ pc' = "matrix"
  /\ UNCHANGED <<text, key, enc, dec, crk, digraphs, known, args, ret>>

PlayfairPrepareText ==
  /\ pc = "start"
  /\ digraphs' = PlayfairCipher_prepare_text(text)
  /\ pc' = "prepared"
  /\ UNCHANGED <<text, key, enc, dec, crk, matrix, known, args, ret>>

PlayfairEncrypt ==
  /\ pc = "start"
  /\ enc' = PlayfairCipher_encrypt(text, key)
  /\ pc' = "encrypted"
  /\ UNCHANGED <<text, key, dec, crk, matrix, digraphs, known, args, ret>>

PlayfairDecrypt ==
  /\ pc = "start"
  /\ dec' = PlayfairCipher_decrypt(text, key)
  /\ pc' = "decrypted"
  /\ UNCHANGED <<text, key, enc, crk, matrix, digraphs, known, args, ret>>

PlayfairDecryptEncrypted ==
  /\ pc = "encrypted"
  /\ dec' = PlayfairCipher_decrypt(enc.result, key)
  /\ pc' = "roundtrip"
  /\ UNCHANGED <<text, key, enc, crk, matrix, digraphs, known, args, ret>>

NextPlayfair ==
  \/ PlayfairGenerateMatrix
  \/ PlayfairPrepareText
  \/ PlayfairEncrypt
  \/ PlayfairDecrypt
  \/ PlayfairDecryptEncrypted

SpecPlayfair == InitPlayfair /\ [][NextPlayfair]_vars

\* The letters A-Z of a keyword, upper-cased, J folded to I.
KeywordLetters(kw) ==
  LET up == str_upper(kw)
      az == SelectSeq(up, LAMBDA c : c \in UpperSet)
  IN [i \in 1..Len(az) |-> IF az[i] = "J" THEN "I" ELSE az[i]]

\* s with only the first occurrence of each element kept.
FirstOccurrences(s) ==
  LET keep == {i \in 1..Len(s) : \A j \in 1..(i - 1) : s[j] # s[i]}
      nth(k) == CHOOSE i \in keep : Cardinality({j \in keep : j < i}) = k - 1
  IN [k \in 1..Cardinality(keep) |-> s[nth(k)]]

\* The cells of a key square in row-major order.
Cells(m) == join(m)

\* C7: for every keyword, generate_matrix returns 5 rows of 5 cells holding every
\* letter A-Z except J exactly once and never J; the keyword's letters (J folded
\* to I, first occurrences only) come first in row-major order, then the unused
\* letters in alphabetical order; and find_position of J is that of I.
C7_KeySquare ==
  pc = "matrix" =>
    LET cells == Cells(matrix)
        head == FirstOccurrences(KeywordLetters(key))
        rest == SelectSeq(ALPHABET_NO_J, LAMBDA c : c \notin Range(head))
    IN /\ Len(matrix) = 5
       /\ \A r \in 1..5 : Len(matrix[r]) = 5
       /\ \A c \in UpperSet \ {"J"} : Cardinality({i \in 1..Len(cells) : cells[i] = c}) = 1
       /\ "J" \notin Range(cells)
       /\ cells = head \o rest
       /\ PlayfairCipher_find_position(matrix, "J") = PlayfairCipher_find_position(matrix, "I")

\* The cleaned text of the claim: upper case, J as I, letters only.
Cleaned(T) == playfair_clean(T)

\* Index i of t starts a digraph of the greedy scan: it is the first index, or
\* the index before it started a digraph and holds the same letter (the filler
\* took the second place), or the index two before it started a digraph of two
\* different letters.
PairStart(t) ==
  LET start[i \in 1..Len(t)] ==
        \/ i = 1
        \/ i >= 2 /\ start[i - 1] /\ t[i - 1] = t[i]
        \/ i >= 3 /\ start[i - 2] /\ t[i - 2] # t[i - 1]
  IN {i \in 1..Len(t) : start[i]}

\* The digraphs of the greedy scan, one per start, in order.
GreedyDigraphs(t) ==
  LET starts == PairStart(t)
      nth(k) == CHOOSE i \in starts : Cardinality({j \in starts : j < i}) = k - 1
      pair(i) == IF i = Len(t) \/ t[i] = t[i + 1] THEN <<t[i], "X">> ELSE <<t[i], t[i + 1]>>
  IN [k \in 1..Cardinality(starts) |-> pair(nth(k))]

\* C8: prepare_text is the greedy left-to-right scan with lookahead of one on
\* the cleaned text: a last letter is paired with X; a letter followed by the
\* same letter is paired with X and the scan advances by one; otherwise the
\* letter is paired with the next and the scan advances by two.  HELLO gives
\* HE, LX, LO.
C8_GreedyScan ==
  /\ pc = "prepared" => digraphs = GreedyDigraphs(Cleaned(text))
  /\ (pc = "prepared" /\ text = HELLO) =>
        digraphs = << <<"H", "E">>, <<"L", "X">>, <<"L", "O">> >>

\* A text whose repeated letter shifted the pairing of what follows it.
C8_Witness ==
  /\ pc = "prepared"
  /\ text = <<"l", "L", "H">>
  /\ digraphs = << <<"L", "X">>, <<"L", "H">> >>

\* C9: Playfair round trip: for every keyword and plaintext, decrypting what
\* encrypt returned, with the same keyword, gives the prepared text (the
\* digraphs of prepare_text joined, fillers included); HELXLO for HELLO under
\* PLAYFAIR.
C9_PlayfairRoundTrip ==
  pc = "roundtrip" =>
     /\ dec.result = join(PlayfairCipher_prepare_text(text))
     /\ (text = HELLO /\ key = PLAYFAIR) =>
           dec.result = <<"H", "E", "L", "X", "L", "O">>

\* The cells (0-based row and column) of the square m that hold the letter c.
SitsAt(m, c) == {rc \in (0..4) \X (0..4) : m[rc[1] + 1][rc[2] + 1] = c}

\* What the rules give for the digraph g whose letters sit in the square m:
\* d is +1 for encrypt and -1 for decrypt.
DigraphRule(m, g, d) ==
  LET p == CHOOSE rc \in SitsAt(m, g[1]) : TRUE
      q == CHOOSE rc \in SitsAt(m, g[2]) : TRUE
      at(r, c) == m[r + 1][c + 1]
  IN IF p[1] = q[1]
     THEN <<at(p[1], (p[2] + d) % 5), at(q[1], (q[2] + d) % 5)>>
     ELSE IF p[2] = q[2]
     THEN <<at((p[1] + d) % 5, p[2]), at((q[1] + d) % 5, q[2])>>
     ELSE <<at(p[1], q[2]), at(q[1], p[2])>>

\* Both letters of the digraph g sit in the square m.
InSquare(m, g) == SitsAt(m, g[1]) # {} /\ SitsAt(m, g[2]) # {}

\* C18: the per-digraph rule: for a digraph whose letters sit at (r1,c1) and
\* (r2,c2) of the key square, encrypt gives the cells (r1,(c1+1) mod 5),
\* (r2,(c2+1) mod 5) when r1 = r2, the cells ((r1+1) mod 5,c1),
\* ((r2+1) mod 5,c2) when c1 = c2 and r1 # r2, and the cells (r1,c2), (r2,c1)
\* otherwise; decrypt uses -1 for +1 in the row and column cases and the same
\* rectangle rule; the result is the outputs of the digraphs in order.
C18_DigraphRule ==
  /\ pc = "encrypted" =>
        /\ \A k \in 1..Len(enc.steps) :
              InSquare(enc.matrix, enc.steps[k].digraph) =>
                 enc.steps[k].encrypted = DigraphRule(enc.matrix, enc.steps[k].digraph, 1)
        /\ enc.result = join([k \in 1..Len(enc.steps) |-> enc.steps[k].encrypted])
  /\ pc \in {"decrypted", "roundtrip"} =>
        /\ \A k \in 1..Len(dec.steps) :
              InSquare(dec.matrix, dec.steps[k].digraph) =>
                 dec.steps[k].decrypted = DigraphRule(dec.matrix, dec.steps[k].digraph, -1)
        /\ dec.result = join([k \in 1..Len(dec.steps) |-> dec.steps[k].decrypted])

\* With the keyword XYZ (first column X C H N S) decrypt took XH, two letters
\* of the first column, up: X from row 0 round to row 4.
C18_Witness ==
  /\ pc = "decrypted"
  /\ key = <<"X", "Y", "Z">>
  /\ text = <<"X", "H">>
  /\ SitsAt(dec.matrix, "X") = {<<0, 0>>}
  /\ SitsAt(dec.matrix, "H") = {<<2, 0>>}
  /\ dec.result = <<"S", "C">>

\* C19: decrypt takes the cleaned ciphertext two characters at a time as it
\* is given, with no filler inserted or removed even in a pair of two
\* identical letters, and drops a trailing single character: for n cleaned
\* letters the result has 2*floor(n/2) letters and the trace one step per
\* complete pair.
C19_DecryptPairsAsGiven ==
  pc = "decrypted" =>
     LET c == Cleaned(text)
         n == Len(c)
     IN /\ Len(dec.result) = 2 * (n \div 2)
        /\ Len(dec.steps) = n \div 2
        /\ \A k \in 1..Len(dec.steps) :
              /\ dec.steps[k].digraph = <<c[2 * k - 1], c[2 * k]>>
              /\ Len(dec.steps[k].decrypted) = 2

\* The ciphertext lLX: the one pair LL is decrypted as it is, X is dropped.
C19_Witness ==
  /\ pc = "decrypted"
  /\ text = <<"l", "L", "X">>
  /\ Len(dec.steps) = 1
  /\ dec.steps[1].digraph = <<"L", "L">>
  /\ Len(dec.result) = 2

\* C23: for every input text, every digraph prepare_text returns has two
\* different letters (a repeated letter is always broken by the filler X),
\* so encrypt never applies a rule to a pair of identical letters.
C23_DigraphsOfDifferentLetters ==
  /\ pc = "prepared" =>
        \A k \in 1..Len(digraphs) :
           Len(digraphs[k]) = 2 /\ digraphs[k][1] # digraphs[k][2]
  /\ pc = "encrypted" =>
        \A k \in 1..Len(enc.steps) :
           enc.steps[k].digraph[1] # enc.steps[k].digraph[2]

----------------------------------------------------------------------------
(* Calls of HillCipher *)

MaxHillLen == 2

HillChars == {"A", "H", "Z", "p", " ", "U+00E9"}

HillEntries == {0, 1, 2, 3, 5}

\* Every 2x2 matrix over HillEntries, and some with negative entries and
\* entries above 25.
HillKeys ==
  {<< <<a, b>>, <<c, d>> >> : a \in HillEntries, b \in HillEntries,
                               c \in HillEntries, d \in HillEntries}
  \cup { << <<-1, 0>>, <<0, 27>> >>,
         << <<3, -23>>, <<28, 5>> >>,
         << <<29, 3>>, <<2, -21>> >>,
         << <<-13, 0>>, <<0, 1>> >>,
         << <<26, 1>>, <<1, 0>> >>,
         << <<30, -2>>, <<4, 4>> >>,
         << <<52, -7>>, <<9, 26>> >> }

InitHill ==
  /\ pc = "start"
  /\ text \in StringsUpTo(HillChars, MaxHillLen)
  /\ key \in HillKeys
  /\ enc = NotCalled /\ dec = NotCalled /\ crk = NotCalled
  /\ matrix = NoneList /\ digraphs = NoneList
  /\ known = NoneList /\ args = NoneList /\ ret = NotCalled

HillEncrypt ==
  /\ pc = "start"
  /\ enc' = HillCipher_encrypt(text, key)
  /\ pc' = "encrypted"
  /\ UNCHANGED <<text, key, dec, crk, matrix, digraphs, known, args, ret>>

HillDecrypt ==
  /\ pc = "start"
  /\ dec' = HillCipher_decrypt(text, key)
  /\ pc' = "decrypted"
  /\ UNCHANGED <<text, key, enc, crk, matrix, digraphs, known, args, ret>>

HillDecryptEncrypted ==
  /\ pc = "encrypted"
  /\ HasResult(enc)
  /\ dec' = HillCipher_decrypt(enc.result, key)
  /\ pc' = "roundtrip"
  /\ UNCHANGED <<text, key, enc, crk, matrix, digraphs, known, args, ret>>

HillValidate ==
  /\ pc = "start"
  /\ ret' = HillCipher_validate_matrix(key)
  /\ pc' = "validated"
  /\ UNCHANGED <<text, key, enc, dec, crk, matrix, digraphs, known, args>>

NextHill == HillEncrypt \/ HillDecrypt \/ HillDecryptEncrypted \/ HillValidate

SpecHill == InitHill /\ [][NextHill]_vars

\* The determinant of a 2x2 matrix, for the claims.
Det(K) == K[1][1] * K[2][2] - K[1][2] * K[2][1]

\* The prepared form of a text, for the claims: upper case, letters only,
\* one X appended if that leaves an odd number of letters.
Prepared(T) ==
  LET letters == SelectSeq(str_upper(T), isalpha)
  IN IF Len(letters) % 2 = 1 THEN letters \o <<"X">> ELSE letters

\* C5: Hill round trip: for every 2x2 integer matrix K whose determinant is
\* coprime with 26 (entries may be negative or above 25) and every text T,
\* decrypting what encrypt returned, with the same K, gives the prepared form
\* of T; T itself when T is upper-case letters only and of even length.
C5_HillRoundTrip ==
  (pc = "roundtrip" /\ Coprime26(Det(key))) =>
     /\ dec.result = Prepared(text)
     /\ (LettersAZ(text) /\ Len(text) % 2 = 0) => dec.result = text

\* The greatest common divisor of d and 26, for the claims.
GcdWith26(d) ==
  IF d % 26 = 0 THEN 26 ELSE IF d % 13 = 0 THEN 13 ELSE IF d % 2 = 0 THEN 2 ELSE 1

\* r holds only an error, which names the gcd of the key's determinant and 26.
OnlyGcdError(r) ==
  /\ DOMAIN r = {"error"}
  /\ r.error = <<"Matrix not invertible. gcd(", Det(key) % 26, ", 26) = ",
                 GcdWith26(Det(key)), " != 1">>

\* C6: for every 2x2 integer matrix whose determinant mod 26 shares the factor
\* 2 or 13 with 26, is_matrix_invertible_mod_26 is false, and encrypt and
\* decrypt return, for every text, the empty one included, a record holding
\* only an error that names the offending gcd, and no result.
C6_SingularKeyIsError ==
  ~Coprime26(Det(key)) =>
     /\ ~is_matrix_invertible_mod_26(key)
     /\ pc = "encrypted" => OnlyGcdError(enc) /\ ~HasResult(enc)
     /\ pc = "decrypted" => OnlyGcdError(dec) /\ ~HasResult(dec)

\* decrypt refused [[1,0],[0,2]] on the empty text, naming gcd 2.
C6_Witness ==
  /\ pc = "decrypted" /\ key = << <<1, 0>>, <<0, 2>> >> /\ text = <<>>
  /\ dec.error[4] = 2

\* C24: key validation and inversion agree: for every 2x2 integer matrix M,
\* validate_matrix(M).valid is true if and only if matrix_inverse_mod_26(M)
\* is not None; so decrypt never returns the error "Could not compute matrix
\* inverse", and every successful encrypt or decrypt record carries an
\* inverse_matrix that is not None.
C24_ValidationAgreesWithInverse ==
  /\ pc = "validated" =>
        /\ ret.valid <=> matrix_inverse_mod_26(key) # NoneList
        /\ ret.valid <=> Coprime26(Det(key))
  /\ pc = "encrypted" =>
        (HasResult(enc) => enc.inverse_matrix # NoneList)
  /\ pc \in {"decrypted", "roundtrip"} =>
        /\ HasError(dec) => dec.error # <<"Could not compute matrix inverse">>
        /\ HasResult(dec) => dec.inverse_matrix # NoneList

\* [[3, -23], [28, 5]] (determinant 659, 9 mod 26) was found valid, and it
\* has an inverse.
C24_Witness ==
  /\ pc = "validated"
  /\ key = << <<3, -23>>, <<28, 5>> >>
  /\ ret.valid = TRUE
  /\ matrix_inverse_mod_26(key) # NoneList

----------------------------------------------------------------------------
(* Calls of HillCipher.crack on what HillCipher.encrypt returned: a known  *)
(* plaintext, a key, the ciphertext the key gives, and the recovery from   *)
(* the pair.                                                               *)

MaxCrackBlocks == 3

CrackBlocks ==
  { <<"H", "E">>, <<"L", "P">>, <<"A", "A">>, <<"h", " ">>, <<"U+00E9">> }

\* The texts made of at most n blocks.
BlockTexts(n) == {join(blocks) : blocks \in StringsUpTo(CrackBlocks, n)}

CrackEntries == {2, 3, 5, 25}

\* Keys with entries in 0..25.
CrackKeys ==
  {<< <<a, b>>, <<c, d>> >> : a \in CrackEntries, b \in CrackEntries,
                               c \in CrackEntries, d \in CrackEntries}
  \cup { << <<0, 1>>, <<1, 0>> >>,
         << <<1, 0>>, <<0, 1>> >>,
         << <<7, 8>>, <<11, 11>> >>,
         << <<1, 0>>, <<0, 2>> >> }

InitCrack ==
  /\ pc = "start"
  /\ text \in BlockTexts(MaxCrackBlocks)
  /\ key \in CrackKeys
  /\ enc = NotCalled /\ dec = NotCalled /\ crk = NotCalled
  /\ matrix = NoneList /\ digraphs = NoneList
  /\ known = NoneList /\ args = NoneList /\ ret = NotCalled

CrackEncrypt ==
  /\ pc = "start"
  /\ enc' = HillCipher_encrypt(text, key)
  /\ pc' = "encrypted"
  /\ UNCHANGED <<text, key, dec, crk, matrix, digraphs, known, args, ret>>

CrackRecover ==
  /\ pc = "encrypted"
  /\ HasResult(enc)
  /\ crk' = HillCipher_crack(text, enc.result)
  /\ pc' = "cracked"
  /\ UNCHANGED <<text, key, enc, dec, matrix, digraphs, known, args, ret>>

NextCrack == CrackEncrypt \/ CrackRecover

SpecCrack == InitCrack /\ [][NextCrack]_vars

\* The 4-letter window of t at the 0-based offset o has a plaintext matrix
\* (columns: its two digraphs) that is invertible mod 26.
InvertibleWindow(t, o) ==
  LET x(i) == ord(t[o + i]) - 65
  IN Coprime26(x(1) * x(4) - x(3) * x(2))

EvenOffsets(t) == {o \in 0..(Len(t) - 4) : o % 2 = 0}

HELP == <<"H", "E", "L", "P">>

\* C10: key recovery is exact: for a key K with entries in 0..25 and
\* determinant coprime with 26, and a known plaintext of at least 4 prepared
\* letters with an even-offset 4-letter window whose matrix is invertible
\* mod 26, crack(T, encrypt(T, K).result) returns key_matrix = K and success
\* true; so for T = HELP and K = [[3,3],[2,5]].
C10_KeyRecoveryExact ==
  /\ ( /\ pc = "cracked"
       /\ \A i \in 1..2, j \in 1..2 : key[i][j] \in 0..25
       /\ Coprime26(Det(key))
       /\ Len(Prepared(text)) >= 4
       /\ \E o \in EvenOffsets(Prepared(text)) : InvertibleWindow(Prepared(text), o) )
     => ( /\ "key_matrix" \in DOMAIN crk
          /\ crk.key_matrix = key
          /\ crk.success = TRUE )
  /\ (pc = "cracked" /\ text = HELP /\ key = << <<3, 3>>, <<2, 5>> >>)
     => (crk.success = TRUE /\ crk.key_matrix = key)

\* The key was recovered from the second window, the first being singular.
C10_Witness ==
  /\ pc = "cracked"
  /\ text = <<"A", "A", "H", "E", "L", "P">>
  /\ key = << <<3, 3>>, <<2, 5>> >>
  /\ ~InvertibleWindow(Prepared(text), 0)
  /\ crk.used_window.position = 2
  /\ crk.success = TRUE /\ crk.key_matrix = key

----------------------------------------------------------------------------
(* Key recovery from any pair: a known plaintext and a known ciphertext,   *)
(* which need not be of the same length nor come from one key.             *)

MaxPairBlocks == 3

PairPlainBlocks ==
  { <<"H", "E">>, <<"L", "P">>, <<"A", "A">>, <<"A", "N">>, <<"n">> }

PairCipherBlocks ==
  { <<"H", "I">>, <<"A", "T">>, <<"A", "A">>, <<"U+00E9">> }

\* The texts made of at most n of the given blocks.
TextsOfBlocks(blocks, n) == {join(bs) : bs \in StringsUpTo(blocks, n)}

InitPair ==
  /\ pc = "start"
  /\ text \in TextsOfBlocks(PairPlainBlocks, MaxPairBlocks)
  /\ known \in TextsOfBlocks(PairCipherBlocks, MaxPairBlocks)
  /\ key = NoneList
  /\ enc = NotCalled /\ dec = NotCalled /\ crk = NotCalled
  /\ matrix = NoneList /\ digraphs = NoneList
  /\ args = NoneList /\ ret = NotCalled

CrackPair ==
  /\ pc = "start"
  /\ crk' = HillCipher_crack(text, known)
  /\ pc' = "cracked"
  /\ UNCHANGED <<text, key, enc, dec, matrix, digraphs, known, args, ret>>

NextPair == CrackPair

SpecPair == InitPair /\ [][NextPair]_vars

\* The shorter of the two prepared lengths, for the claims.
PairLen ==
  IF Len(Prepared(text)) < Len(Prepared(known))
  THEN Len(Prepared(text)) ELSE Len(Prepared(known))

\* The known plaintext and ciphertext, prepared and cut to the shorter length.
PlainFull == SubSeq(Prepared(text), 1, PairLen)

CipherFull == SubSeq(Prepared(known), 1, PairLen)

\* det(P) mod 26 for the window of t at the 0-based offset o.
WindowDetMod(t, o) ==
  LET x(i) == ord(t[o + i]) - 65
  IN (x(1) * x(4) - x(3) * x(2)) % 26

\* The log of the positions tried that the record r holds: positions_tried
\* after exhaustion, the search step's positions_tried otherwise (there is no
\* search step when the first window was used).
SearchLog(r) ==
  IF "positions_tried" \in DOMAIN r THEN r.positions_tried
  ELSE IF r.steps[1].step = "Search for invertible plaintext matrix"
       THEN r.steps[1].positions_tried
       ELSE <<>>

\* The entry e of the log rejects the offset o of the plaintext t, with the
\* gcd of the window's determinant and 26 as the reason.
RejectsOffset(e, t, o) ==
  /\ e.position = o
  /\ e.invertible = FALSE
  /\ e.reason = <<"gcd(", WindowDetMod(t, o), ", 26) = ",
                  GcdWith26(WindowDetMod(t, o)), " != 1">>
  /\ e.reason[4] # 1

\* C11: when the plaintext window at offset 0 is singular mod 26, crack goes
\* on to the next even offset, and the record it returns logs every rejected
\* offset (each even offset below the one used, once, in ascending order) as
\* not invertible, with the reason giving gcd(det(P) mod 26, 26), never 1.
C11_RejectedOffsetsLogged ==
  (pc = "cracked" /\ PairLen >= 4 /\ ~InvertibleWindow(PlainFull, 0)) =>
     LET log == SearchLog(crk)
         rejected == SelectSeq(log, LAMBDA e : ~e.invertible)
         n == Len(rejected)
     IN /\ n >= 1
        /\ \A i \in 1..n : log[i] = rejected[i] /\ RejectsOffset(log[i], PlainFull, 2 * (i - 1))
        /\ IF "used_window" \in DOMAIN crk
           THEN /\ crk.used_window.position = 2 * n
                /\ Len(log) = n + 1
                /\ log[n + 1].position = 2 * n
           ELSE /\ Len(log) = n
                /\ 2 * n > PairLen - 4

\* AAHELP against AAHIAT: offset 0 was rejected with gcd 26, offset 2 used.
C11_Witness ==
  /\ pc = "cracked"
  /\ text = <<"A", "A", "H", "E", "L", "P">>
  /\ known = <<"A", "A", "H", "I", "A", "T">>
  /\ crk.used_window.position = 2
  /\ crk.steps[1].positions_tried[1].reason[4] = 26
  /\ crk.success = TRUE

\* The text K gives for the prepared text t: K times each digraph, mod 26.
ApplyKey(K, t) ==
  [i \in 1..Len(t) |->
     LET a == ord(t[IF i % 2 = 1 THEN i ELSE i - 1]) - 65
         b == ord(t[IF i % 2 = 1 THEN i + 1 ELSE i]) - 65
         row == IF i % 2 = 1 THEN 1 ELSE 2
     IN chr(((K[row][1] * a + K[row][2] * b) % 26) + 65)]

\* The smallest even offset of t whose window is invertible mod 26.
FirstInvertible(t) ==
  CHOOSE o \in EvenOffsets(t) :
     /\ InvertibleWindow(t, o)
     /\ \A q \in EvenOffsets(t) : InvertibleWindow(t, q) => o <= q

\* C12: crack never backtracks: the window it uses is the smallest even
\* offset whose plaintext matrix is invertible mod 26, nothing after it is
\* tried, and when the key computed there does not reproduce the full
\* ciphertext the record has success false, that key, that offset and the
\* expected and actual texts, and no error.
C12_NoBacktracking ==
  ( /\ pc = "cracked" /\ PairLen >= 4
    /\ \E o \in EvenOffsets(PlainFull) : InvertibleWindow(PlainFull, o) ) =>
     LET o == FirstInvertible(PlainFull)
         log == SearchLog(crk)
     IN /\ "used_window" \in DOMAIN crk
        /\ crk.used_window.position = o
        /\ crk.used_window.plaintext = SubSeq(PlainFull, o + 1, o + 4)
        /\ crk.used_window.ciphertext = SubSeq(CipherFull, o + 1, o + 4)
        /\ IF o = 0 THEN log = <<>>
           ELSE Len(log) = o \div 2 + 1 /\ log[Len(log)].position = o
        /\ ApplyKey(crk.key_matrix, PlainFull) # CipherFull =>
              /\ crk.success = FALSE
              /\ "error" \notin DOMAIN crk
              /\ crk.key_matrix =
                   matrix_multiply_mod(window_matrix(crk.used_window.ciphertext),
                                       matrix_inverse_mod_26(window_matrix(crk.used_window.plaintext)),
                                       26)
              /\ crk.verification.expected = CipherFull
              /\ crk.verification.encrypted # CipherFull
              /\ crk.verification.match = FALSE

\* HELPHE against HIATAA: the key of offset 0 gives HIATHI; offset 2, whose
\* window is invertible too, is not tried.
C12_Witness ==
  /\ pc = "cracked"
  /\ text = <<"H", "E", "L", "P", "H", "E">>
  /\ known = <<"H", "I", "A", "T", "A", "A">>
  /\ InvertibleWindow(PlainFull, 2)
  /\ crk.used_window.position = 0
  /\ crk.success = FALSE
  /\ crk.key_matrix = << <<3, 3>>, <<2, 5>> >>
  /\ crk.verification.encrypted = <<"H", "I", "A", "T", "H", "I">>

\* C13 as stated: whenever crack computes a candidate key K, success is true
\* if and only if K times every digraph of the truncated known plaintext,
\* mod 26, is the truncated known ciphertext, for every K, one whose
\* determinant is not coprime with 26 included.
C13_SuccessIffKeyMapsText ==
  (pc = "cracked" /\ "key_matrix" \in DOMAIN crk) =>
     (crk.success <=> ApplyKey(crk.key_matrix, PlainFull) = CipherFull)

\* C13, amended: success is true if and only if the determinant of K is
\* coprime with 26 and K times every digraph of the truncated known
\* plaintext, mod 26, is the truncated known ciphertext; a K that encrypt
\* refuses gives success false and the empty text as the actual value.
C13_SuccessIffValidKeyMapsText ==
  (pc = "cracked" /\ "key_matrix" \in DOMAIN crk) =>
     /\ crk.success <=> ( /\ Coprime26(Det(crk.key_matrix))
                          /\ ApplyKey(crk.key_matrix, PlainFull) = CipherFull )
     /\ ~Coprime26(Det(crk.key_matrix)) => crk.verification.encrypted = <<>>

\* HELP against AAAA: the key is the zero matrix, which maps HELP to AAAA,
\* and success is false.
C13_Witness ==
  /\ pc = "cracked"
  /\ text = <<"H", "E", "L", "P">>
  /\ known = <<"A", "A", "A", "A">>
  /\ crk.key_matrix = << <<0, 0>>, <<0, 0>> >>
  /\ ApplyKey(crk.key_matrix, PlainFull) = CipherFull
  /\ crk.success = FALSE

\* C14: recovery exhaustion: when both prepared texts have at least 4 letters
\* and no even offset 0, 2, ..., L-4 (L the shorter prepared length) has an
\* invertible plaintext matrix, crack returns success false with an error, a
\* suggestion, no key_matrix, and positions_tried listing exactly those
\* offsets, once each in ascending order, all marked not invertible.
C14_Exhaustion ==
  ( /\ pc = "cracked" /\ PairLen >= 4
    /\ \A o \in EvenOffsets(PlainFull) : ~InvertibleWindow(PlainFull, o) ) =>
     /\ crk.success = FALSE
     /\ "error" \in DOMAIN crk
     /\ "suggestion" \in DOMAIN crk
     /\ "key_matrix" \notin DOMAIN crk
     /\ "positions_tried" \in DOMAIN crk
     /\ Len(crk.positions_tried) = Cardinality(EvenOffsets(PlainFull))
     /\ \A i \in 1..Len(crk.positions_tried) :
           /\ crk.positions_tried[i].position = 2 * (i - 1)
           /\ crk.positions_tried[i].invertible = FALSE

\* HEANAA against HIAT and e-acute (6 prepared letters): offsets 0 and 2 are
\* tried in vain.
C14_Witness ==
  /\ pc = "cracked"
  /\ text = <<"H", "E", "A", "N", "A", "A">>
  /\ known = <<"H", "I", "A", "T", "U+00E9">>
  /\ "error" \in DOMAIN crk
  /\ Len(crk.positions_tried) = 2
  /\ crk.positions_tried[1].reason[4] = 13
  /\ crk.positions_tried[2].position = 2

----------------------------------------------------------------------------
(* Calls of matrix_inverse_mod_26 on a 2x2 integer matrix *)

MaxEntry == 4

\* Entries around zero, and the multiples and neighbours of 13 and 26.
MatrixEntries == (-MaxEntry..MaxEntry) \cup {-27, -26, 13, 25, 26, 27}

Matrices ==
  {<< <<a, b>>, <<c, d>> >> : a \in MatrixEntries, b \in MatrixEntries,
                               c \in MatrixEntries, d \in MatrixEntries}

InitMatrix ==
  /\ pc = "start"
  /\ key \in Matrices
  /\ text = NoneList /\ known = NoneList /\ args = NoneList
  /\ enc = NotCalled /\ dec = NotCalled /\ crk = NotCalled
  /\ matrix = NoneList /\ digraphs = NoneList
  /\ ret = NotCalled

MatrixInverse ==
  /\ pc = "start"
  /\ ret' = [function |-> "matrix_inverse_mod_26", value |-> matrix_inverse_mod_26(key)]
  /\ pc' = "inverted"
  /\ UNCHANGED <<text, key, enc, dec, crk, matrix, digraphs, known, args>>

MatrixIsInvertible ==
  /\ pc = "start"
  /\ ret' = [function |-> "is_matrix_invertible_mod_26",
             value |-> is_matrix_invertible_mod_26(key)]
  /\ pc' = "tested"
  /\ UNCHANGED <<text, key, enc, dec, crk, matrix, digraphs, known, args>>

NextMatrix == MatrixInverse \/ MatrixIsInvertible

SpecMatrix == InitMatrix /\ [][NextMatrix]_vars

Identity2 == << <<1, 0>>, <<0, 1>> >>

\* The product of two 2x2 matrices mod 26, for the claims.
Product26(A, B) ==
  [i \in 1..2 |-> [j \in 1..2 |-> (A[i][1] * B[1][j] + A[i][2] * B[2][j]) % 26]]

\* C15: for every 2x2 integer matrix M, matrix_inverse_mod_26(M) returns None
\* exactly when gcd(det(M) mod 26, 26) is not 1, and otherwise the adjugate
\* scaled by the modular inverse of the determinant: a matrix N with entries
\* in 0..25 such that M*N and N*M are the identity mod 26.
C15_MatrixInverse ==
  pc = "inverted" =>
     LET N == ret.value
         d == Det(key) % 26
     IN /\ N = NoneList <=> GcdWith26(d) # 1
        /\ N # NoneList =>
             /\ \A i \in 1..2, j \in 1..2 : N[i][j] \in 0..25
             /\ \E v \in 0..25 :
                   /\ (d * v) % 26 = 1
                   /\ N = << << (v * key[2][2]) % 26, (v * (-key[1][2])) % 26 >>,
                             << (v * (-key[2][1])) % 26, (v * key[1][1]) % 26 >> >>
             /\ Product26(key, N) = Identity2
             /\ Product26(N, key) = Identity2
             /\ matrix_multiply_mod(key, N, 26) = Identity2
             /\ matrix_multiply_mod(N, key, 26) = Identity2

\* The inverse of [[-3, 27], [2, 3]] (determinant -63) was computed.
C15_Witness ==
  /\ pc = "inverted"
  /\ key = << <<-3, 27>>, <<2, 3>> >>
  /\ ret.value # NoneList
  /\ Product26(key, ret.value) = Identity2

----------------------------------------------------------------------------
(* Calls of mod_inverse(a, m) *)

MaxAbsA == 30

MaxModulus == 30

InitModInverse ==
  /\ pc = "start"
  /\ args \in (-MaxAbsA..MaxAbsA) \X (1..MaxModulus)
  /\ text = NoneList /\ key = NoneList /\ known = NoneList
  /\ enc = NotCalled /\ dec = NotCalled /\ crk = NotCalled
  /\ matrix = NoneList /\ digraphs = NoneList
  /\ ret = NotCalled

ModInverse ==
  /\ pc = "start"
  /\ ret' = [function |-> "mod_inverse", value |-> mod_inverse(args[1], args[2])]
  /\ pc' = "inverse"
  /\ UNCHANGED <<text, key, enc, dec, crk, matrix, digraphs, known, args>>

Mod ==
  /\ pc = "start"
  /\ ret' = [function |-> "mod", value |-> mod(args[1], args[2])]
  /\ pc' = "reduced"
  /\ UNCHANGED <<text, key, enc, dec, crk, matrix, digraphs, known, args>>

NextModInverse == ModInverse \/ Mod

SpecModInverse == InitModInverse /\ [][NextModInverse]_vars

\* The greatest common divisor of x >= 0 and m >= 1, for the claims.
GreatestDivisor(x, m) ==
  CHOOSE g \in 1..m :
     /\ x % g = 0 /\ m % g = 0
     /\ \A h \in 1..m : (x % h = 0 /\ m % h = 0) => h <= g

\* C16: for every integer a (negative included) and every modulus m >= 1,
\* mod_inverse(a, m) returns None exactly when gcd(a mod m, m) is not 1, and
\* otherwise the one v with 0 <= v < m and a*v congruent to 1 modulo m.
C16_ModInverse ==
  pc = "inverse" =>
     LET a == args[1]
         m == args[2]
         v == ret.value
     IN /\ v = NoneInt <=> GreatestDivisor(a % m, m) # 1
        /\ v # NoneInt =>
             /\ v \in 0..(m - 1)
             /\ (a * v - 1) % m = 0
             /\ \A w \in 0..(m - 1) : (a * w - 1) % m = 0 => w = v

\* The inverse of -3 modulo 26 is 17.
C16_Witness ==
  /\ pc = "inverse"
  /\ args = <<-3, 26>>
  /\ ret.value = 17

----------------------------------------------------------------------------
(* Calls of HillCipher with a key matrix of any shape *)

\* Matrices that are not 2x2: no rows, a wrong number of rows, a row whose
\* length is not 2.
MalformedKeys ==
  { <<>>,
    << <<1, 2>> >>,
    << <<>> >>,
    << <<>>, <<>> >>,
    << <<3>>, <<5>> >>,
    << <<3, 3>>, <<2>> >>,
    << <<3>>, <<2, 5>> >>,
    << <<3, 3>>, <<2, 5, 1>> >>,
    << <<3, 3, 1>>, <<2, 5>> >>,
    << <<3, 3>>, <<>> >>,
    << <<1, 2, 3>>, <<4, 5, 6>> >>,
    << <<3, 3>>, <<2, 5>>, <<1, 1>> >>,
    << <<1, 0, 0>>, <<0, 1, 0>>, <<0, 0, 1>> >> }

\* Two matrices that are 2x2: one invertible mod 26, one not.
WellFormedKeys == { << <<3, 3>>, <<2, 5>> >>, << <<2, 0>>, <<0, 13>> >> }

InitShape ==
  /\ pc = "start"
  /\ text \in StringsUpTo(HillChars, MaxHillLen)
  /\ key \in MalformedKeys \cup WellFormedKeys
  /\ enc = NotCalled /\ dec = NotCalled /\ crk = NotCalled
  /\ matrix = NoneList /\ digraphs = NoneList
  /\ known = NoneList /\ args = NoneList /\ ret = NotCalled

NextShape == HillValidate \/ HillEncrypt \/ HillDecrypt

SpecShape == InitShape /\ [][NextShape]_vars

\* K is not a 2x2 matrix.
NotTwoByTwo(K) == Len(K) # 2 \/ \E i \in 1..Len(K) : Len(K[i]) # 2

\* C17: for a key matrix that is not 2x2 (a wrong number of rows, none
\* included, or a row whose length is not 2), validate_matrix returns valid
\* false with the error "Matrix must be 2x2", and encrypt and decrypt return
\* a record with that error and no result.
C17_NotTwoByTwoIsError ==
  NotTwoByTwo(key) =>
     /\ pc = "validated" =>
           ret.valid = FALSE /\ ret.error = <<"Matrix must be 2x2">>
     /\ pc = "encrypted" =>
           HasError(enc) /\ enc.error = <<"Matrix must be 2x2">> /\ ~HasResult(enc)
     /\ pc = "decrypted" =>
           HasError(dec) /\ dec.error = <<"Matrix must be 2x2">> /\ ~HasResult(dec)

\* decrypt refused the matrix with no rows, and one whose second row is short.
C17_Witness ==
  /\ pc = "decrypted"
  /\ key \in { <<>>, << <<3, 3>>, <<2>> >> }
  /\ text = <<"A", "H">>
  /\ dec.error = <<"Matrix must be 2x2">>

----------------------------------------------------------------------------
(* Calls of extended_gcd(a, b) and gcd(a, b) on non-negative integers *)

MaxGcdArg == 40

InitGcd ==
  /\ pc = "start"
  /\ args \in (0..MaxGcdArg) \X (0..MaxGcdArg)
  /\ text = NoneList /\ key = NoneList /\ known = NoneList
  /\ enc = NotCalled /\ dec = NotCalled /\ crk = NotCalled
  /\ matrix = NoneList /\ digraphs = NoneList
  /\ ret = NotCalled

ExtendedGcd ==
  /\ pc = "start"
  /\ ret' = [function |-> "extended_gcd", value |-> extended_gcd(args[1], args[2])]
  /\ pc' = "extended"
  /\ UNCHANGED <<text, key, enc, dec, crk, matrix, digraphs, known, args>>

Gcd ==
  /\ pc = "start"
  /\ ret' = [function |-> "gcd", value |-> gcd(args[1], args[2])]
  /\ pc' = "gcd"
  /\ UNCHANGED <<text, key, enc, dec, crk, matrix, digraphs, known, args>>

NextGcd == ExtendedGcd \/ Gcd

SpecGcd == InitGcd /\ [][NextGcd]_vars

\* The greatest common divisor of two non-negative integers, 0 for 0 and 0,
\* for the claims.
GcdNat(a, b) ==
  IF a = 0 /\ b = 0 THEN 0
  ELSE CHOOSE g \in 1..(a + b) :
         /\ a % g = 0 /\ b % g = 0
         /\ \A h \in 1..(a + b) : (a % h = 0 /\ b % h = 0) => h <= g

\* C21: for every pair of non-negative integers a and b, extended_gcd(a, b)
\* returns (g, x, y) with g = gcd(a, b) and a*x + b*y = g; for a = 0 it
\* returns (b, 0, 1).  gcd(a, b) is that g too, and gcd(0, 0) = 0.
C21_ExtendedGcd ==
  /\ pc = "extended" =>
        LET a == args[1]
            b == args[2]
            g == ret.value[1]
            x == ret.value[2]
            y == ret.value[3]
        IN /\ Len(ret.value) = 3
           /\ g = GcdNat(a, b)
           /\ g = gcd(a, b)
           /\ a * x + b * y = g
           /\ a = 0 => ret.value = <<b, 0, 1>>
  /\ pc = "gcd" => ret.value = GcdNat(args[1], args[2])

\* extended_gcd(26, 15) returned gcd 1 with 26*x + 15*y = 1.
C21_Witness ==
  /\ pc = "extended"
  /\ args = <<26, 15>>
  /\ ret.value[1] = 1
  /\ 26 * ret.value[2] + 15 * ret.value[3] = 1
  /\ ret.value[2] # 0 /\ ret.value[3] # 0

============================================================================
